---- MODULE Spec2Model ----
(***************************************************************************)
(* Model of the exam-routine extraction engine of MR_ROUTINE (src/bot.py): *)
(* the pattern extractors parse_time, parse_date, parse_exam_type and      *)
(* parse_course_info, and the walker extract_all_section_infos with its    *)
(* per-page capture loop.                                                  *)
(*                                                                         *)
(* Text is modelled as text: a page is the sequence of its lines           *)
(* (text.split("\n")), a line is a string, and splitting, substring tests  *)
(* and the regular expressions of the source are computed on characters.   *)
(***************************************************************************)
EXTENDS Integers, Sequences, FiniteSets, TLC

(***************************************************************************)
(* Characters and strings (Python str / re primitives)                     *)
(***************************************************************************)

Digits == {"0", "1", "2", "3", "4", "5", "6", "7", "8", "9"}

UpperLetters == "ABCDEFGHIJKLMNOPQRSTUVWXYZ"

LowerLetters == "abcdefghijklmnopqrstuvwxyz"

\* the character of s at 1-based position i, "" outside the string
Ch(s, i) == IF i >= 1 /\ i <= Len(s) THEN SubSeq(s, i, i) ELSE ""

\* the characters of s at positions a..b that exist (a slice never fails)
Slice(s, a, b) ==
    LET lo == IF a < 1 THEN 1 ELSE a
        hi == IF b > Len(s) THEN Len(s) ELSE b
    IN  IF lo > hi THEN "" ELSE SubSeq(s, lo, hi)

UpperSet == {Ch(UpperLetters, i) : i \in 1..26}

LowerSet == {Ch(LowerLetters, i) : i \in 1..26}

LetterSet == UpperSet \cup LowerSet

\* \w of the re module, on the characters that occur in routine text
WordChars == LetterSet \cup Digits \cup {"_"}

\* \s of the re module and the separators of str.split()
WhiteSpace == {" ", "\t", "\n"}

LowerOf == [c \in UpperSet |-> Ch(LowerLetters, CHOOSE i \in 1..26 : Ch(UpperLetters, i) = c)]

UpperOf == [c \in LowerSet |-> Ch(UpperLetters, CHOOSE i \in 1..26 : Ch(LowerLetters, i) = c)]

LowerChar(c) == IF c \in UpperSet THEN LowerOf[c] ELSE c

UpperChar(c) == IF c \in LowerSet THEN UpperOf[c] ELSE c

RECURSIVE StrLower(_)
\* str.lower()
StrLower(s) == IF s = "" THEN "" ELSE LowerChar(Ch(s, 1)) \o StrLower(SubSeq(s, 2, Len(s)))

\* sub in s
StrContains(s, sub) ==
    \E i \in 1..(Len(s) - Len(sub) + 1) : SubSeq(s, i, i + Len(sub) - 1) = sub

\* w in s.lower(), for a lower-case word w
LowerContains(s, w) ==
    \E i \in 1..(Len(s) - Len(w) + 1) :
        \A k \in 1..Len(w) : LowerChar(Ch(s, i + k - 1)) = Ch(w, k)

\* the word w is at position i of s, letter case ignored (re.IGNORECASE)
WordAt(s, i, w) == \A k \in 1..Len(w) : LowerChar(Ch(s, i + k - 1)) = Ch(w, k)

\* every character of s lies in the class cls
AllChars(s, cls) == \A i \in 1..Len(s) : Ch(s, i) \in cls

\* first index >= i of s that holds no whitespace (Len(s) + 1 when none): \s*
RECURSIVE SkipSpace(_, _)
SkipSpace(s, i) ==
    IF i <= Len(s) /\ Ch(s, i) \in WhiteSpace THEN SkipSpace(s, i + 1) ELSE i

\* first index >= i of s that holds whitespace (Len(s) + 1 when none)
RECURSIVE SkipToken(_, _)
SkipToken(s, i) ==
    IF i <= Len(s) /\ Ch(s, i) \notin WhiteSpace THEN SkipToken(s, i + 1) ELSE i

RECURSIVE SplitFrom(_, _)
SplitFrom(s, i) ==
    LET b == SkipSpace(s, i)
        e == SkipToken(s, b)
    IN  IF b > Len(s) THEN <<>> ELSE <<SubSeq(s, b, e - 1)>> \o SplitFrom(s, e)

\* str.split(): the whitespace-delimited tokens of s
Split(s) == SplitFrom(s, 1)

RECURSIVE Join(_, _)
\* sep.join(parts)
Join(parts, sep) ==
    IF parts = <<>> THEN ""
    ELSE IF Len(parts) = 1 THEN parts[1]
    ELSE parts[1] \o sep \o Join(Tail(parts), sep)

\* str.strip()
RECURSIVE StripRight(_)
StripRight(s) ==
    IF s # "" /\ Ch(s, Len(s)) \in WhiteSpace THEN StripRight(SubSeq(s, 1, Len(s) - 1)) ELSE s

Strip(s) == StripRight(SubSeq(s, SkipSpace(s, 1), Len(s)))

\* list.index(x) as a 0-based position, -1 standing for ValueError
ListIndex(parts, x) ==
    IF \E i \in 1..Len(parts) : parts[i] = x
    THEN (CHOOSE i \in 1..Len(parts) : parts[i] = x /\ \A j \in 1..(i - 1) : parts[j] # x) - 1
    ELSE -1

\* parts[k] for a Python index k, negative indices counting from the end
PyItem(parts, k) == IF k >= 0 THEN parts[k + 1] ELSE parts[Len(parts) + k + 1]

\* \b of the re module between positions i - 1 and i of s
WordBoundary(s, i) == (Ch(s, i - 1) \in WordChars) # (Ch(s, i) \in WordChars)

\* least member of a non-empty set of integers (leftmost regex match)
MinOf(S) == CHOOSE m \in S : \A n \in S : m <= n

\* int() of a string of decimal digits
RECURSIVE StrToInt(_)
StrToInt(s) ==
    IF s = "" THEN 0
    ELSE 10 * StrToInt(SubSeq(s, 1, Len(s) - 1))
         + (CHOOSE d \in 0..9 : Ch("0123456789", d + 1) = Ch(s, Len(s)))

(***************************************************************************)
(* parse_time (src/bot.py 169-191)                                         *)
(***************************************************************************)

\* Slot\s*:?\.?\s*([A-Z]) under re.IGNORECASE, matched at position i of s:
\* the position of the slot letter, 0 when the prefix does not match at i
SlotLetterPos(s, i) ==
    LET j1 == SkipSpace(s, i + 4)
        j2 == IF Ch(s, j1) = ":" THEN j1 + 1 ELSE j1
        j3 == IF Ch(s, j2) = "." THEN j2 + 1 ELSE j2
        j4 == SkipSpace(s, j3)
    IN  IF WordAt(s, i, "slot") /\ Ch(s, j4) \in LetterSet THEN j4 ELSE 0

\* first position >= i of s holding ")" (Len(s) + 1 when none): [^)]+
RECURSIVE SkipToParen(_, _)
SkipToParen(s, i) ==
    IF i <= Len(s) /\ Ch(s, i) # ")" THEN SkipToParen(s, i + 1) ELSE i

\* pattern 1 at position i: <<letter, group 2>> or <<>>
SlotParenAt(s, i) ==
    LET p == SlotLetterPos(s, i)
        k == SkipSpace(s, p + 1)
        e == SkipToParen(s, k + 1)
    IN  IF p # 0 /\ Ch(s, k) = "(" /\ e > k + 1 /\ e <= Len(s)
        THEN <<Ch(s, p), SubSeq(s, k + 1, e - 1)>>
        ELSE <<>>

\* [0-9]{1,2}:[0-9]{2}\s*[AP]M at position k: the position after it, 0 if none
ClockEnd(s, k) ==
    LET c == IF Ch(s, k + 1) \in Digits THEN k + 2 ELSE k + 1
        a == SkipSpace(s, c + 3)
    IN  IF /\ Ch(s, k) \in Digits
           /\ Ch(s, c) = ":"
           /\ Ch(s, c + 1) \in Digits
           /\ Ch(s, c + 2) \in Digits
           /\ LowerChar(Ch(s, a)) \in {"a", "p"}
           /\ LowerChar(Ch(s, a + 1)) = "m"
        THEN a + 2
        ELSE 0

\* pattern 2 at position i: <<letter, group 2>> or <<>>
SlotBareAt(s, i) ==
    LET p  == SlotLetterPos(s, i)
        k  == SkipSpace(s, p + 1)
        e1 == ClockEnd(s, k)
        d  == SkipSpace(s, e1)
        k2 == SkipSpace(s, d + 1)
        e2 == ClockEnd(s, k2)
    IN  IF p # 0 /\ k > p + 1 /\ e1 # 0 /\ Ch(s, d) = "-" /\ e2 # 0
        THEN <<Ch(s, p), SubSeq(s, k, e2 - 1)>>
        ELSE <<>>

SlotFormat(m) == "Slot " \o UpperChar(m[1]) \o " (" \o Strip(m[2]) \o ")"

parse_time(text) ==
    LET P1 == {i \in 1..Len(text) : SlotParenAt(text, i) # <<>>}
        P2 == {i \in 1..Len(text) : SlotBareAt(text, i) # <<>>}
    IN  IF P1 # {} THEN SlotFormat(SlotParenAt(text, MinOf(P1)))
        ELSE IF P2 # {} THEN SlotFormat(SlotBareAt(text, MinOf(P2)))
        ELSE ""

(***************************************************************************)
(* parse_date (src/bot.py 194-211)                                         *)
(***************************************************************************)

\* Date\s*:\s*([0-9]{2}[-/][0-9]{2}[-/][0-9]{4}) under re.IGNORECASE at
\* position i: the position of group 1, 0 when there is no match at i
DateTokenPos(s, i) ==
    LET j == SkipSpace(s, i + 4)
        k == SkipSpace(s, j + 1)
    IN  IF /\ WordAt(s, i, "date")
           /\ Ch(s, j) = ":"
           /\ \A o \in {0, 1, 3, 4, 6, 7, 8, 9} : Ch(s, k + o) \in Digits
           /\ \A o \in {2, 5} : Ch(s, k + o) \in {"-", "/"}
        THEN k
        ELSE 0

\* str.replace("/", "-")
RECURSIVE ReplaceSlash(_)
ReplaceSlash(s) ==
    IF s = "" THEN ""
    ELSE (IF Ch(s, 1) = "/" THEN "-" ELSE Ch(s, 1)) \o ReplaceSlash(SubSeq(s, 2, Len(s)))

IsLeap(y) == (y % 4 = 0 /\ y % 100 # 0) \/ y % 400 = 0

DaysInMonth(y, m) ==
    IF m = 2 THEN (IF IsLeap(y) THEN 29 ELSE 28)
    ELSE IF m \in {4, 6, 9, 11} THEN 30 ELSE 31

\* datetime.strptime(date_raw, "%d-%m-%Y") succeeds
IsCalendarDate(d, m, y) == y >= 1 /\ m >= 1 /\ m <= 12 /\ d >= 1 /\ d <= DaysInMonth(y, m)

WeekdayNames == <<"Monday", "Tuesday", "Wednesday", "Thursday", "Friday", "Saturday", "Sunday">>

\* days from 01-01-0001 (a Monday) to d-m-y, as datetime counts ordinals
RECURSIVE DaysBeforeMonth(_, _)
DaysBeforeMonth(y, m) == IF m = 1 THEN 0 ELSE DaysBeforeMonth(y, m - 1) + DaysInMonth(y, m - 1)

Ordinal(d, m, y) ==
    LET p == y - 1
    IN  p * 365 + (p \div 4) - (p \div 100) + (p \div 400) + DaysBeforeMonth(y, m) + d

\* dt.strftime("%A")
Weekday(d, m, y) == WeekdayNames[((Ordinal(d, m, y) + 6) % 7) + 1]

\* parse_date that gives nothing for a date that strptime rejects
parse_dateDropsInvalid(text) ==
    LET P == {i \in 1..Len(text) : DateTokenPos(text, i) # 0}
        k == DateTokenPos(text, MinOf(P))
        date_raw == ReplaceSlash(SubSeq(text, k, k + 9))
        d == StrToInt(SubSeq(date_raw, 1, 2))
        m == StrToInt(SubSeq(date_raw, 4, 5))
        y == StrToInt(SubSeq(date_raw, 7, 10))
    IN  IF P = {} THEN ""
        ELSE IF IsCalendarDate(d, m, y) THEN date_raw \o " (" \o Weekday(d, m, y) \o ")"
        ELSE ""

parse_date(text) ==
    LET P == {i \in 1..Len(text) : DateTokenPos(text, i) # 0}
        k == DateTokenPos(text, MinOf(P))
        date_raw == ReplaceSlash(SubSeq(text, k, k + 9))
        d == StrToInt(SubSeq(date_raw, 1, 2))
        m == StrToInt(SubSeq(date_raw, 4, 5))
        y == StrToInt(SubSeq(date_raw, 7, 10))
    IN  IF P = {} THEN ""
        ELSE IF IsCalendarDate(d, m, y) THEN date_raw \o " (" \o Weekday(d, m, y) \o ")"
        ELSE date_raw

(***************************************************************************)
(* parse_exam_type (src/bot.py 214-242)                                    *)
(***************************************************************************)

ImprovementWords == {"improvement", "improve", "makeup", "make-up", "supplementary"}

\* parse_exam_type with the midterm rule tried before the final rule
parse_exam_typeMidFirst(text) ==
    LET t == Join(Split(StrLower(text)), " ")
        has(w) == StrContains(t, w)
    IN  IF t = "" THEN ""
        ELSE IF /\ (has("mid") \/ has("midterm") \/ has("mid-term") \/ has("mid term"))
                /\ (has("exam") \/ has("examination") \/ has("mid term") \/ has("term mid"))
        THEN "Midterm Examination"
        ELSE IF has("final") /\ (has("exam") \/ has("examination") \/ has("term final") \/ has("final term"))
        THEN "Final Examination"
        ELSE IF \E w \in ImprovementWords : has(w)
        THEN "Improvement / Makeup Examination"
        ELSE ""

parse_exam_type(text) ==
    LET t == Join(Split(StrLower(text)), " ")
        has(w) == StrContains(t, w)
    IN  IF t = "" THEN ""
        ELSE IF has("final") /\ (has("exam") \/ has("examination") \/ has("term final") \/ has("final term"))
        THEN "Final Examination"
        ELSE IF /\ (has("mid") \/ has("midterm") \/ has("mid-term") \/ has("mid term"))
                /\ (has("exam") \/ has("examination") \/ has("mid term") \/ has("term mid"))
        THEN "Midterm Examination"
        ELSE IF \E w \in ImprovementWords : has(w)
        THEN "Improvement / Makeup Examination"
        ELSE ""

(***************************************************************************)
(* parse_course_info (src/bot.py 246-292)                                  *)
(***************************************************************************)

\* re.search(rf"\b{section_prefix}_[A-Z]\b", line)
HasPrefixSection(line, section_prefix) ==
    LET n == Len(section_prefix)
    IN  \E i \in 1..Len(line) :
            /\ WordBoundary(line, i)
            /\ Slice(line, i, i + n - 1) = section_prefix
            /\ Ch(line, i + n) = "_"
            /\ Ch(line, i + n + 1) \in UpperSet
            /\ WordBoundary(line, i + n + 2)

\* \b([A-Z]{3}\d{3,4})\b at position i: the length of the match, 0 if none
CourseCodeLen(line, i) ==
    IF /\ WordBoundary(line, i)
       /\ \A o \in 0..2 : Ch(line, i + o) \in UpperSet
       /\ \A o \in 3..5 : Ch(line, i + o) \in Digits
    THEN IF Ch(line, i + 6) \in Digits /\ WordBoundary(line, i + 7) THEN 7
         ELSE IF WordBoundary(line, i + 6) THEN 6
         ELSE 0
    ELSE 0

\* re.fullmatch(rf"{section_prefix}_[A-Z]", tok)
IsPrefixSection(tok, section_prefix) ==
    LET n == Len(section_prefix)
    IN  /\ Len(tok) = n + 2
        /\ Slice(tok, 1, n) = section_prefix
        /\ Ch(tok, n + 1) = "_"
        /\ Ch(tok, n + 2) \in UpperSet

\* title_tokens[:i] for the first i whose token is a section code of the prefix
CutAtSection(title_tokens, section_prefix) ==
    LET S == {i \in 1..Len(title_tokens) : IsPrefixSection(title_tokens[i], section_prefix)}
    IN  IF S = {} THEN title_tokens ELSE SubSeq(title_tokens, 1, MinOf(S) - 1)

\* re.fullmatch(r"[A-Za-z]{2,4}", tok) and any(c.isupper() for c in tok)
IsInitials(tok) ==
    /\ Len(tok) >= 2
    /\ Len(tok) <= 4
    /\ AllChars(tok, LetterSet)
    /\ \E i \in 1..Len(tok) : Ch(tok, i) \in UpperSet

RECURSIVE DropInitials(_)
DropInitials(tokens) ==
    IF tokens # <<>> /\ IsInitials(tokens[Len(tokens)])
    THEN DropInitials(SubSeq(tokens, 1, Len(tokens) - 1))
    ELSE tokens

\* str.endswith(suffix)
EndsWith(s, suffix) ==
    Len(s) >= Len(suffix) /\ SubSeq(s, Len(s) - Len(suffix) + 1, Len(s)) = suffix

\* the body of the loop for one qualifying line
CourseOfLine(line, section_prefix) ==
    LET P == {i \in 1..Len(line) : CourseCodeLen(line, i) # 0}
        b == MinOf(P)
        cid == SubSeq(line, b, b + CourseCodeLen(line, b) - 1)
        parts == Split(line)
        idx == ListIndex(parts, cid)
        title_tokens == CutAtSection(SubSeq(parts, idx + 2, Len(parts)), section_prefix)
        tokens == DropInitials(Split(Strip(Join(title_tokens, " "))))
        cname == Join(tokens, " ")
    IN  IF idx = -1 THEN [name |-> "", id |-> "", raised |-> TRUE]
        ELSE [name |-> IF EndsWith(cname, "Desig") THEN cname \o "n" ELSE cname,
              id |-> cid, raised |-> FALSE]

\* a line the loop does not skip
IsCourseLine(line, section_prefix) ==
    /\ HasPrefixSection(line, section_prefix)
    /\ \E i \in 1..Len(line) : CourseCodeLen(line, i) # 0

\* text is given as text.split("\n"); raised stands for the ValueError of
\* parts.index(course_id)
parse_course_info(textLines, section_prefix) ==
    LET Q == {i \in 1..Len(textLines) : IsCourseLine(textLines[i], section_prefix)}
    IN  IF Q = {} THEN [name |-> "", id |-> "", raised |-> FALSE]
        ELSE CourseOfLine(textLines[MinOf(Q)], section_prefix)

(***************************************************************************)
(* Inputs: the PDFs of the folder are drawn from pages made of these lines *)
(***************************************************************************)

MaxDocs == 2

MaxPages == 2

MaxLines == 2

\* the sequences over S of length lo..hi
SeqsOf(S, lo, hi) == UNION {[1..n -> S] : n \in lo..hi}

\* a page is text.split("\n"): 1..MaxLines lines
PagesOver(lineSet) == UNION {[1..n -> lineSet] : n \in 1..MaxLines}

Codes == {"66_A", "69_B"}

\* a section row with a room of its own
SectionRow == "NS 66_A 208 27 50"

\* a PDF whose page makes the walker raise when the target is 66_A
RaisingPdf == <<<<"NS 66_AB 208 27 50">>>>

\* a page of one line, for each line of lineSet
OneLinePages(lineSet) == {<<l>> : l \in lineSet}

\* a page is a header line, the section row, or the header line and the row
HeaderPages(headerSet) ==
    OneLinePages(headerSet \cup {SectionRow}) \cup {<<h, SectionRow>> : h \in headerSet}

\* the PDFs of 0..np pages drawn from pageSet
DocsOver(pageSet, np) == SeqsOf(pageSet, 0, np)

\* the PDFs whose first page is any arrangement of 1..MaxLines lines and
\* whose 0..nt following pages hold one line each
LeadDocs(lineSet, nt) ==
    {<<>>} \cup {<<p>> \o t : p \in PagesOver(lineSet), t \in SeqsOf(OneLinePages(lineSet), 0, nt)}

\* pages of a routine: a header with a section row that has no room; room
\* rows, two section rows and the footer
Pages ==
    { <<"Final Examination", "Date: 05-11-2025 Slot A (09:00 AM - 10:30 AM)", "ASM 66_A 51">>,
      <<"G26 12", "FSIT CSE227 Systems Analysis and Design NS 66_A 208 27 50",
        "MR 69_B 516 30 30", "Total 1506">> }

\* section rows, room rows, a footer, a row naming two sections
CaptureLines ==
    {"NS 66_A 208 27 50", "ASM 69_B 30", "801B 3", "TOTAL 1506", "MR 69_B 66_A 9"}

\* section rows whose section code is the first token or part of a token
TokenLines == {"66_A 801B 3 51", "NS 66_AB 208 27 50", "G26 12", "NS 66_A 50"}

\* section rows with zero, one, two, three and four tokens after the section
\* code, and one whose first token is the section code
FirstRoomLines ==
    {"NS 66_A", "NS 66_A 50", "NS 66_A 27 50", "NS 66_A 208 27 50", "NS 66_A 208 27 9 50",
     "66_A 801B 3 51"}

\* two headers with a date and a slot, a section row with a course and no
\* room, a section row with a room, a row of another section, a room row
RejectLines ==
    {"Date: 05-11-2025 Slot A (9 AM)", "Date: 06-11-2025 Slot B (1 PM)",
     "CSE227 Web NS 66_A 50", "MR 66_A 208 27 51", "ASM 69_B 30", "G26 12"}

\* a later page with a header of its own over a section row with a room
LaterPage == <<"Date: 06-11-2025 Slot B (1 PM)", "MR 66_A 208 27 51">>

\* the PDFs whose first page is any arrangement of 1..MaxLines lines and
\* whose 0..nt following pages hold one line each or are the later page
RejectDocs(nt) ==
    {<<>>} \cup {<<p>> \o t : p \in PagesOver(RejectLines),
                              t \in SeqsOf(OneLinePages(RejectLines) \cup {LaterPage}, 0, nt)}

\* a room row, two section rows of the target code, a room row whose room
\* is the target code, a row of another section that names the target code,
\* a row with the target code inside a longer token
RepeatLines ==
    {"G26 12", "NS 66_A 208 27 50", "MR 66_A 9 51", "66_A 12", "ASM 69_B 66_A 9",
     "NS 66_AB 1 2 3"}

\* slot headers: parenthesized, bare, keyword without a slot
TimeLines == {"Slot B (11:30 AM - 01:00 PM)", "slot: c 02:00 PM - 03:30 PM", "Time Slot"}

\* date headers: a calendar date, a date of month 13, a label without colon
DateLines == {"Date: 05-11-2025", "DATE : 31/13/2025", "Date 06-11-2025"}

\* a section row without a room, two room rows, a row of another section
LookaheadLines == {"NS 66_A 50", "801B 3", "G26 12", "ASM 69_B 30"}

\* exam type headers
ExamLines == {"Final Examination", "Mid Term", "Makeup Test"}

\* date headers: calendar dates written with - and with /, day 31 of a
\* 30-day month, 29 February of a leap year and of another year, month 13
CalendarLines ==
    {"Date: 05/11/2025", "Date: 31-04-2025", "Date: 29/02/2024", "Date: 29-02-2025",
     "DATE : 31/13/2025"}

\* headers that meet one, two or no rule of the classifier, and the section row
ExamRuleLines == {"Final Exam", "MID  Term", "Make-Up Test", "Finals", SectionRow}

\* a course line of another section of the prefix, a course line that is
\* the section row, a section row without a course code
CourseLines ==
    {"CSE227 Design NS 66_B 101 5 9", "MAT101 Calculus MR 66_A 208 27 50", "NS 66_A 208 27 50"}

\* a course line with faculty and initials, a course code in brackets, a
\* title cut short, a section row without a course code, a course line of
\* another prefix
CourseInfoLines ==
    {"F CSE227 Web Design NS 66_A 2 5",
     "F (CSE227) Web 66_A 2 5",
     "CSE227 Desig NS 66_A 1 2",
     "NS 66_A 208 27 50",
     "MAT101 Math MR 69_B 5 5"}

\* the example of the docstring of parse_course_info (src/bot.py 246-292)
DocstringLine == "FSIT CSE227 Systems Analysis and Design NS 66_A 208 27 50"

AllPages ==
    Pages \cup PagesOver(CaptureLines) \cup PagesOver(TokenLines) \cup PagesOver(LookaheadLines)
          \cup HeaderPages(TimeLines) \cup HeaderPages(DateLines) \cup HeaderPages(ExamLines)
          \cup PagesOver(CourseLines) \cup PagesOver(CourseInfoLines)
          \cup OneLinePages({DocstringLine}) \cup PagesOver(ExamRuleLines)
          \cup HeaderPages(CalendarLines) \cup PagesOver(FirstRoomLines)
          \cup PagesOver(RejectLines) \cup {LaterPage} \cup PagesOver(RepeatLines)

AllLines == UNION {{p[i] : i \in 1..Len(p)} : p \in AllPages}

(***************************************************************************)
(* extract_all_section_infos (src/bot.py 295-403): helpers                 *)
(***************************************************************************)

\* page.extract_text() or "", a page being kept as text.split("\n")
PageText(page) == Join(page, "\n")

\* section_code.split("_")[0]
SectionPrefix(code) ==
    LET U == {i \in 1..Len(code) : Ch(code, i) = "_"}
    IN  IF U = {} THEN code ELSE SubSeq(code, 1, MinOf(U) - 1)

\* re.search(r"\b\d{2}_[A-Z]\b", line)
HasGenericSection(line) ==
    \E i \in 1..Len(line) :
        /\ WordBoundary(line, i)
        /\ Ch(line, i) \in Digits
        /\ Ch(line, i + 1) \in Digits
        /\ Ch(line, i + 2) = "_"
        /\ Ch(line, i + 3) \in UpperSet
        /\ WordBoundary(line, i + 4)

\* re.match(r"^\s*([\w-]+)\s+(\d+)\s*$", line): the groups, or <<>>
RoomRow(line) ==
    LET parts == Split(line)
    IN  IF /\ Len(parts) = 2
           /\ AllChars(parts[1], WordChars \cup {"-"})
           /\ AllChars(parts[2], Digits)
        THEN parts
        ELSE <<>>

\* a function as an explicit table: every value is computed once
Table(f) == f @@ <<>>

\* what lines 317-339 read off the text of a page, computed once per page
PageScan ==
  Table(
    [page \in AllPages |->
        LET text == PageText(page)
        IN  [has_date |-> LowerContains(text, "date"),
             date |-> parse_date(text),
             has_slot |-> LowerContains(text, "slot"),
             time |-> parse_time(text),
             exam_type |-> parse_exam_type(text),
             course |-> [code \in Codes |-> parse_course_info(page, SectionPrefix(code))],
             has_section |-> [code \in Codes |-> StrContains(text, code)]]])

\* what lines 356-378 read off a line, computed once per line
LineScan ==
  Table(
    [line \in AllLines |->
        [parts |-> Split(line),
         has_section |-> [code \in Codes |-> StrContains(line, code)],
         generic |-> HasGenericSection(line),
         row |-> RoomRow(line)]])

\* UpdateDate without the "not date_str" guard: the latest date wins
UpdateDateLatest(page, date) ==
    IF PageScan[page].has_date
    THEN (IF PageScan[page].date # "" THEN PageScan[page].date ELSE date)
    ELSE date

\* lines 320-323: date once per file
UpdateDate(page, date) ==
    IF PageScan[page].has_date /\ date = ""
    THEN (IF PageScan[page].date # "" THEN PageScan[page].date ELSE date)
    ELSE date

\* UpdateTime that keeps the first slot of the file
UpdateTimeFirstWins(page, time) ==
    IF PageScan[page].has_slot /\ time = ""
    THEN (IF PageScan[page].time # "" THEN PageScan[page].time ELSE time)
    ELSE time

\* lines 326-329: the slot of the latest page that names one
UpdateTime(page, time) ==
    IF PageScan[page].has_slot
    THEN (IF PageScan[page].time # "" THEN PageScan[page].time ELSE time)
    ELSE time

\* exam type from the first page that names one
RECURSIVE ExamTypeOfAnyPage(_)
ExamTypeOfAnyPage(doc) ==
    IF doc = <<>> THEN ""
    ELSE IF PageScan[doc[1]].exam_type # "" THEN PageScan[doc[1]].exam_type
    ELSE ExamTypeOfAnyPage(Tail(doc))

\* lines 310-312: exam type from the first page
FirstPageExamType(doc) == IF Len(doc) > 0 THEN PageScan[doc[1]].exam_type ELSE ""

\* CourseLookup without the "not course_id" guard: the latest course wins
CourseLookupLatest(page, code, cid) == PageScan[page].course[code]

\* lines 333-334: course info once per file
CourseLookup(page, code, cid) ==
    IF cid = "" THEN PageScan[page].course[code] ELSE [name |-> "", id |-> "", raised |-> FALSE]

\* line 339: section_code in text
PageHasSection(page, code) == PageScan[page].has_section[code]

\* CombinedLines with a lookahead of two pages
CombinedLinesTwoAhead(doc, index) ==
    IF index + 2 < Len(doc) THEN doc[index + 1] \o doc[index + 2] \o doc[index + 3]
    ELSE IF index + 1 < Len(doc) THEN doc[index + 1] \o doc[index + 2]
    ELSE doc[index + 1]

\* lines 343-348: the lines of page page_index (0-based) and of the next page
CombinedLines(doc, index) ==
    IF index + 1 < Len(doc) THEN doc[index + 1] \o doc[index + 2] ELSE doc[index + 1]

\* IsStopLine without "section_code not in line"
IsStopLineAnySection(line, code) == LineScan[line].generic

\* line 374: the line ends the capture
IsStopLine(line, code) == LineScan[line].generic /\ ~LineScan[line].has_section[code]

\* IsTotalRoom without room.lower()
IsTotalRoomExact(room) == room = "Total"

\* line 383: the grand total line
IsTotalRoom(room) == StrLower(room) = "total"

\* line 361: initials before section
TeacherOf(parts, idx) == PyItem(parts, idx - 1)

\* FirstRoom with "idx + 2 < len(parts)": two following tokens are enough
FirstRoomTwoTokens(parts, idx) ==
    IF idx + 2 < Len(parts) THEN <<<<PyItem(parts, idx + 1), PyItem(parts, idx + 2)>>>> ELSE <<>>

\* lines 365-368: first room + seats on the section row (idx is 0-based)
FirstRoom(parts, idx) ==
    IF idx + 3 < Len(parts) THEN <<<<PyItem(parts, idx + 1), PyItem(parts, idx + 2)>>>> ELSE <<>>

\* lines 356-386, one iteration of "for line in lines": the capture state
\* after the line and how the loop goes on (next, break, or raise for the
\* ValueError of parts.index)
ScanStep(c, line, code) ==
    LET parts == LineScan[line].parts
        idx == ListIndex(parts, code)
        row == LineScan[line].row
    IN  IF LineScan[line].has_section[code] /\ ~c.capturing
        THEN IF idx = -1
             THEN [c EXCEPT !.capturing = TRUE, !.ctl = "raise"]
             ELSE [capturing |-> TRUE,
                   teacher |-> TeacherOf(parts, idx),
                   total_seats |-> PyItem(parts, -1),
                   rooms |-> c.rooms \o FirstRoom(parts, idx),
                   ctl |-> "next"]
        ELSE IF c.capturing
        THEN IF IsStopLine(line, code) THEN [c EXCEPT !.ctl = "break"]
             ELSE IF row # <<>> /\ ~IsTotalRoom(row[1])
             THEN [c EXCEPT !.rooms = Append(c.rooms, row), !.ctl = "next"]
             ELSE [c EXCEPT !.ctl = "next"]
        ELSE [c EXCEPT !.ctl = "next"]

\* FreshCapture that is capturing from the start
FreshCaptureCapturing ==
    [capturing |-> TRUE, teacher |-> "", total_seats |-> "", rooms |-> <<>>, ctl |-> "next"]

\* lines 349-352
FreshCapture == [capturing |-> FALSE, teacher |-> "", total_seats |-> "", rooms |-> <<>>, ctl |-> "next"]

\* Accepted without the test of the room list
AcceptedTeacherOnly(rms, tchr) == tchr # ""

\* line 388
Accepted(rms, tchr) == rms # <<>> /\ tchr # ""

\* AcceptOutcome without the break of line 401
AcceptOutcomeNoBreak(ok, index) == [goto |-> "page", index |-> index + 1]

\* lines 388-401: after an accepted capture the page loop is left (break),
\* otherwise it goes on with the next page
AcceptOutcome(ok, index) ==
    IF ok THEN [goto |-> "glob", index |-> index] ELSE [goto |-> "page", index |-> index + 1]

\* lines 349-386 as a whole: the capture state after the line loop, from
\* line i of lns on
RECURSIVE ScanFrom(_, _, _, _)
ScanFrom(c, lns, i, code) ==
    IF i > Len(lns) THEN c
    ELSE LET r == ScanStep(c, lns[i], code)
         IN  IF r.ctl = "next" THEN ScanFrom(r, lns, i + 1, code) ELSE r

\* the capture of page index (0-based) of doc
CaptureOf(doc, index, code) == ScanFrom(FreshCapture, CombinedLines(doc, index), 1, code)

\* page index of doc yields a record: lines 339 and 388
ValidPage(doc, index, code) ==
    /\ PageHasSection(doc[index + 1], code)
    /\ CaptureOf(doc, index, code).ctl # "raise"
    /\ Accepted(CaptureOf(doc, index, code).rooms, CaptureOf(doc, index, code).teacher)

\* the lowest-indexed page of doc that yields a record, -1 when none does
FirstValidPage(doc, code) ==
    LET V == {i \in 0..(Len(doc) - 1) : ValidPage(doc, i, code)}
    IN  IF V = {} THEN -1 ELSE MinOf(V)

(***************************************************************************)
(* State                                                                   *)
(***************************************************************************)

VARIABLES
    section_code,   \* the target section code
    docs,           \* folder.glob("*.pdf"): the PDFs, each a sequence of pages
    results,        \* the result list
    doc_index,      \* number of PDFs opened so far; docs[doc_index] is open
    page_index,     \* 0-based index of the page loop
    time_str, date_str, course_name, course_id, exam_type,
    page_time_str,
    lines,          \* combined_text.split("\n")
    line_index,     \* 1-based position of the line loop
    capturing, teacher, total_seats, rooms,
    pc              \* glob, page, scan, accept, done, raised; none outside a call

\* the caller of the walker: handle_section and format_section_infos
VARIABLES
    drive,          \* file_list: the PDFs of the Drive folder
    update_id,      \* number of updates given to handle_section so far
    section_input,  \* the trimmed, upper-cased text of the update
    handler,        \* idle, thread (format_section_infos entered), extract
    replies,        \* the reply_text calls so far, each by its kind
    rating_log,     \* the lines of logs/ratings.txt
    feedback_log,   \* the lines of logs/feedback.txt
    calls           \* the calls of extract_all_section_infos that returned

\* worker threads that run format_section_infos side by side
VARIABLES
    folder,         \* the PDFs in PDF_FOLDER, each by its position in file_list
    threads         \* per worker thread: position, target code, loop state,
                    \* PDFs opened

workerVars == <<folder, threads>>

callerVars == <<drive, update_id, section_input, handler, replies, rating_log,
                feedback_log, calls, workerVars>>

vars == <<section_code, docs, results, doc_index, page_index, time_str, date_str,
          course_name, course_id, exam_type, page_time_str, lines, line_index,
          capturing, teacher, total_seats, rooms, pc, callerVars>>

\* what the walker is given and what belongs to its caller
inputVars == <<section_code, docs, callerVars>>

metaVars == <<time_str, date_str, course_name, course_id, exam_type, page_time_str>>

captureVars == <<lines, line_index, capturing, teacher, total_seats, rooms>>

pdf == docs[doc_index]

num_pages == Len(pdf)

cap == [capturing |-> capturing, teacher |-> teacher, total_seats |-> total_seats,
        rooms |-> rooms, ctl |-> "next"]

\* lines 389-399
Record ==
    [date |-> date_str, time |-> page_time_str, section |-> section_code,
     teacher |-> teacher, rooms |-> rooms, total |-> total_seats,
     course_name |-> course_name, course_id |-> course_id, exam_type |-> exam_type]

(***************************************************************************)
(* Actions                                                                 *)
(***************************************************************************)

\* OpenPdf without line 301: the slot of the PDF before stays
OpenPdfKeepsSlot ==
    /\ pc = "glob"
    /\ doc_index < Len(docs)
    /\ doc_index' = doc_index + 1
    /\ date_str' = ""
    /\ course_name' = ""
    /\ course_id' = ""
    /\ exam_type' = FirstPageExamType(docs[doc_index + 1])
    /\ page_index' = 0
    /\ pc' = "page"
    /\ UNCHANGED <<inputVars, results, time_str, page_time_str, captureVars>>

\* lines 299-312: the next PDF is opened
OpenPdf ==
    /\ pc = "glob"
    /\ doc_index < Len(docs)
    /\ doc_index' = doc_index + 1
    /\ time_str' = ""
    /\ date_str' = ""
    /\ course_name' = ""
    /\ course_id' = ""
    /\ exam_type' = FirstPageExamType(docs[doc_index + 1])
    /\ page_index' = 0
    /\ pc' = "page"
    /\ UNCHANGED <<inputVars, results, page_time_str, captureVars>>

\* line 403: no PDF is left
Return ==
    /\ pc = "glob"
    /\ doc_index = Len(docs)
    /\ pc' = "done"
    /\ UNCHANGED <<inputVars, results, doc_index, page_index, metaVars, captureVars>>

\* PageStep whose running slot is the slot of the page alone: a page without
\* a slot clears it
PageStepSlotOfPage ==
    /\ pc = "page"
    /\ page_index < num_pages
    /\ LET page == pdf[page_index + 1]
           info == CourseLookup(page, section_code, course_id)
       IN  /\ date_str' = UpdateDate(page, date_str)
           /\ time_str' = PageScan[page].time
           /\ IF info.raised
              THEN /\ pc' = "raised"
                   /\ UNCHANGED <<page_time_str, course_name, course_id, page_index, captureVars>>
              ELSE /\ page_time_str' = time_str'
                   /\ course_name' = IF info.id # "" THEN info.name ELSE course_name
                   /\ course_id' = IF info.id # "" THEN info.id ELSE course_id
                   /\ IF ~PageHasSection(page, section_code)
                      THEN /\ page_index' = page_index + 1
                           /\ pc' = "page"
                           /\ UNCHANGED captureVars
                      ELSE /\ lines' = CombinedLines(pdf, page_index)
                           /\ line_index' = 1
                           /\ capturing' = FreshCapture.capturing
                           /\ teacher' = FreshCapture.teacher
                           /\ total_seats' = FreshCapture.total_seats
                           /\ rooms' = FreshCapture.rooms
                           /\ pc' = "scan"
                           /\ UNCHANGED page_index
    /\ UNCHANGED <<inputVars, results, doc_index, exam_type>>

\* lines 315-352: one page up to the start of its line loop
PageStep ==
    /\ pc = "page"
    /\ page_index < num_pages
    /\ LET page == pdf[page_index + 1]
           info == CourseLookup(page, section_code, course_id)
       IN  /\ date_str' = UpdateDate(page, date_str)
           /\ time_str' = UpdateTime(page, time_str)
           /\ IF info.raised
              THEN /\ pc' = "raised"
                   /\ UNCHANGED <<page_time_str, course_name, course_id, page_index, captureVars>>
              ELSE /\ page_time_str' = time_str'
                   /\ course_name' = IF info.id # "" THEN info.name ELSE course_name
                   /\ course_id' = IF info.id # "" THEN info.id ELSE course_id
                   /\ IF ~PageHasSection(page, section_code)
                      THEN /\ page_index' = page_index + 1
                           /\ pc' = "page"
                           /\ UNCHANGED captureVars
                      ELSE /\ lines' = CombinedLines(pdf, page_index)
                           /\ line_index' = 1
                           /\ capturing' = FreshCapture.capturing
                           /\ teacher' = FreshCapture.teacher
                           /\ total_seats' = FreshCapture.total_seats
                           /\ rooms' = FreshCapture.rooms
                           /\ pc' = "scan"
                           /\ UNCHANGED page_index
    /\ UNCHANGED <<inputVars, results, doc_index, exam_type>>

\* line 315: the page loop is exhausted, the PDF is closed
PagesDone ==
    /\ pc = "page"
    /\ page_index = num_pages
    /\ pc' = "glob"
    /\ UNCHANGED <<inputVars, results, doc_index, page_index, metaVars, captureVars>>

\* lines 354-386: one line of the capture loop
ScanLine ==
    /\ pc = "scan"
    /\ line_index <= Len(lines)
    /\ LET r == ScanStep(cap, lines[line_index], section_code)
       IN  /\ capturing' = r.capturing
           /\ teacher' = r.teacher
           /\ total_seats' = r.total_seats
           /\ rooms' = r.rooms
           /\ pc' = IF r.ctl = "raise" THEN "raised"
                    ELSE IF r.ctl = "break" THEN "accept" ELSE "scan"
           /\ line_index' = IF r.ctl = "next" THEN line_index + 1 ELSE line_index
    /\ UNCHANGED <<inputVars, results, doc_index, page_index, metaVars, lines>>

\* line 354: the line loop is exhausted
ScanDone ==
    /\ pc = "scan"
    /\ line_index > Len(lines)
    /\ pc' = "accept"
    /\ UNCHANGED <<inputVars, results, doc_index, page_index, metaVars, captureVars>>

\* AcceptStep that puts the record at the head of the list
AcceptStepPrepend ==
    /\ pc = "accept"
    /\ results' = IF Accepted(rooms, teacher) THEN <<Record>> \o results ELSE results
    /\ pc' = AcceptOutcome(Accepted(rooms, teacher), page_index).goto
    /\ page_index' = AcceptOutcome(Accepted(rooms, teacher), page_index).index
    /\ UNCHANGED <<inputVars, doc_index, metaVars, captureVars>>

\* lines 388-401: the capture of the page is accepted or dropped
AcceptStep ==
    /\ pc = "accept"
    /\ results' = IF Accepted(rooms, teacher) THEN Append(results, Record) ELSE results
    /\ pc' = AcceptOutcome(Accepted(rooms, teacher), page_index).goto
    /\ page_index' = AcceptOutcome(Accepted(rooms, teacher), page_index).index
    /\ UNCHANGED <<inputVars, doc_index, metaVars, captureVars>>

Next == OpenPdf \/ Return \/ PageStep \/ PagesDone \/ ScanLine \/ ScanDone \/ AcceptStep

(***************************************************************************)
(* Specifications                                                          *)
(***************************************************************************)

\* the state at line 296 for a folder of 1..nd PDFs drawn from docSet
\* the walker is called on a folder as it is, no update being handled
NoCaller ==
    /\ drive = <<>>
    /\ update_id = 0
    /\ section_input = ""
    /\ handler = "idle"
    /\ replies = <<>>
    /\ rating_log = <<>>
    /\ feedback_log = <<>>
    /\ calls = <<>>
    /\ folder = {}
    /\ threads = <<>>

InitOver(codes, docSet, nd) ==
    /\ NoCaller
    /\ section_code \in codes
    /\ docs \in SeqsOf(docSet, 1, nd)
    /\ results = <<>>
    /\ doc_index = 0
    /\ page_index = 0
    /\ time_str = ""
    /\ date_str = ""
    /\ course_name = ""
    /\ course_id = ""
    /\ exam_type = ""
    /\ page_time_str = ""
    /\ lines = <<>>
    /\ line_index = 1
    /\ capturing = FALSE
    /\ teacher = ""
    /\ total_seats = ""
    /\ rooms = <<>>
    /\ pc = "glob"

\* a folder of several routine PDFs
Init == InitOver(Codes, DocsOver(Pages, MaxPages), MaxDocs)

Spec == Init /\ [][Next]_vars

\* one PDF, every arrangement of the capture lines on its first page
InitCapture == InitOver(Codes, LeadDocs(CaptureLines, MaxPages - 1), 1)

SpecCapture == InitCapture /\ [][Next]_vars

InitTokens == InitOver({"66_A"}, LeadDocs(TokenLines, MaxPages - 1), 1)

SpecTokens == InitTokens /\ [][Next]_vars

\* one PDF whose first page arranges section rows of every length
InitFirstRoom == InitOver({"66_A"}, LeadDocs(FirstRoomLines, MaxPages - 1), 1)

SpecFirstRoom == InitFirstRoom /\ [][Next]_vars

\* one PDF whose first page may hold the section row without a room and
\* whose later pages may hold it with one
InitReject == InitOver({"66_A"}, RejectDocs(MaxPages - 1), 1)

SpecReject == InitReject /\ [][Next]_vars

\* one PDF whose first page arranges room rows and rows with the target code
InitRepeat == InitOver({"66_A"}, LeadDocs(RepeatLines, MaxPages - 1), 1)

SpecRepeat == InitRepeat /\ [][Next]_vars

\* one PDF of up to MaxPages + 1 pages: a page before the page of the
\* section row and a page after it
InitTime == InitOver({"66_A"}, DocsOver(HeaderPages(TimeLines), MaxPages + 1), 1)

SpecTime == InitTime /\ [][Next]_vars

InitDate == InitOver({"66_A"}, DocsOver(HeaderPages(DateLines), MaxPages + 1), 1)

SpecDate == InitDate /\ [][Next]_vars

\* one PDF of up to MaxPages + 1 pages: the page after the lookahead page
InitLookahead == InitOver({"66_A"}, LeadDocs(LookaheadLines, MaxPages), 1)

SpecLookahead == InitLookahead /\ [][Next]_vars

InitExam == InitOver({"66_A"}, DocsOver(HeaderPages(ExamLines), MaxPages + 1), 1)

SpecExam == InitExam /\ [][Next]_vars

\* one PDF whose pages arrange the course lines
InitCourse == InitOver({"66_A"}, DocsOver(PagesOver(CourseLines), MaxPages), 1)

SpecCourse == InitCourse /\ [][Next]_vars

\* one PDF whose pages hold a date header of the calendar lines, the
\* section row, or both
InitCalendar == InitOver({"66_A"}, DocsOver(HeaderPages(CalendarLines), MaxPages), 1)

SpecCalendar == InitCalendar /\ [][Next]_vars

\* one PDF whose first page arranges the exam rule lines
InitExamRules == InitOver({"66_A"}, LeadDocs(ExamRuleLines, MaxPages - 1), 1)

SpecExamRules == InitExamRules /\ [][Next]_vars

\* one PDF whose first page arranges the course info lines, or is the line
\* of the docstring
InitCourseInfo ==
    InitOver({"66_A"},
             LeadDocs(CourseInfoLines, MaxPages - 1) \cup {<<<<DocstringLine>>>>}, 1)

SpecCourseInfo == InitCourseInfo /\ [][Next]_vars

(***************************************************************************)
(* handle_section and format_section_infos (src/bot.py 406-464, 505-585),  *)
(* one update at a time                                                    *)
(***************************************************************************)

\* updates handled in one behaviour
MaxUpdates == 2

\* str.upper()
RECURSIVE StrUpper(_)
StrUpper(s) == IF s = "" THEN "" ELSE UpperChar(Ch(s, 1)) \o StrUpper(SubSeq(s, 2, Len(s)))

\* s.startswith(prefix)
StartsWith(s, prefix) == Len(s) >= Len(prefix) /\ SubSeq(s, 1, Len(prefix)) = prefix

FEEDBACK_PREFIX == "FB:"

\* the labels of the two menu buttons, the emoji written by its name
MenuLabel == ":CLIPBOARD: MENU"

InfoLabel == ":INFORMATION: INFO"

\* re.fullmatch(r"[1-5]\*", s)
IsRating(s) == Len(s) = 2 /\ Ch(s, 1) \in {"1", "2", "3", "4", "5"} /\ Ch(s, 2) = "*"

\* a prefix of the text has the shape of a section code: re.match
IsSectionCodePrefix(s) ==
    /\ Len(s) >= 4
    /\ Ch(s, 1) \in Digits /\ Ch(s, 2) \in Digits /\ Ch(s, 3) = "_" /\ Ch(s, 4) \in UpperSet

\* re.fullmatch(r"\d{2}_[A-Z]", s)
IsSectionCode(s) ==
    /\ Len(s) = 4
    /\ Ch(s, 1) \in Digits /\ Ch(s, 2) \in Digits /\ Ch(s, 3) = "_" /\ Ch(s, 4) \in UpperSet

\* section_input[len(FEEDBACK_PREFIX):].strip()
FeedbackOf(s) == Strip(SubSeq(s, Len(FEEDBACK_PREFIX) + 1, Len(s)))

\* the branch of handle_section that a trimmed, upper-cased text takes
BranchOf(s) ==
    IF s = MenuLabel THEN "menu"
    ELSE IF s = InfoLabel THEN "info"
    ELSE IF IsRating(s) THEN "rating"
    ELSE IF StartsWith(s, FEEDBACK_PREFIX)
         THEN (IF FeedbackOf(s) = "" THEN "feedback_prompt" ELSE "feedback")
    ELSE IF ~IsSectionCode(s) THEN "validation"
    ELSE "section"

\* the reply_text calls of a branch before it returns or awaits the thread
FirstReply ==
    [menu |-> "start", info |-> "info", rating |-> "rating_thanks",
     feedback_prompt |-> "feedback_prompt", feedback |-> "feedback_thanks",
     validation |-> "validation", section |-> "searching"]

\* message texts: section codes typed in several ways, malformed codes, a
\* rating, a number that is no rating, feedback, the two buttons
Messages ==
    {" 66_a ", "69_B", "66_AB", "6_A", "5*", "6*", "fb: slow", "FB:  ",
     ":clipboard: Menu", ":information: Info"}

\* datetime.now() as read by the log helpers
Clock == {"09:00", "17:30"}

\* the Drive folder is empty or holds one PDF
Drives == SeqsOf(DocsOver(Pages, MaxPages) \cup {RaisingPdf}, 0, 1)

\* lines 505-562: an update is taken up to its return or to the start of the
\* worker thread
HandleSection ==
    /\ handler = "idle"
    /\ update_id < MaxUpdates
    /\ update_id' = update_id + 1
    /\ \E text \in Messages, now \in Clock :
          LET input == StrUpper(Strip(text))
              branch == BranchOf(input)
          IN  /\ section_input' = input
              /\ replies' = Append(replies, FirstReply[branch])
              /\ rating_log' = IF branch = "rating"
                               THEN Append(rating_log, [at |-> now, rating |-> input])
                               ELSE rating_log
              /\ feedback_log' = IF branch = "feedback"
                                 THEN Append(feedback_log, [at |-> now, feedback |-> FeedbackOf(input)])
                                 ELSE feedback_log
              /\ handler' = IF branch = "section" THEN "thread" ELSE "idle"
    /\ UNCHANGED <<section_code, docs, results, doc_index, page_index, metaVars,
                   captureVars, pc, drive, workerVars, calls>>

\* lines 408-415 and 564-585: the sync raises, before the local PDFs are
\* cleared or while the PDFs are downloaded; the error text is the result
SyncRaises ==
    /\ handler = "thread"
    /\ \E left \in {docs} \cup {SubSeq(drive, 1, k) : k \in 0..(Len(drive) - 1)} : docs' = left
    /\ replies' = replies \o <<"sync_failed", "thank_you">>
    /\ handler' = "idle"
    /\ UNCHANGED <<section_code, results, doc_index, page_index, metaVars, captureVars,
                   pc, drive, workerVars, update_id, section_input, rating_log, feedback_log, calls>>

\* lines 104-150, 418-422 and 564-585: the Drive folder holds no PDF
SyncEmpty ==
    /\ handler = "thread"
    /\ drive = <<>>
    /\ docs' = <<>>
    /\ replies' = replies \o <<"maintenance", "thank_you">>
    /\ handler' = "idle"
    /\ UNCHANGED <<section_code, results, doc_index, page_index, metaVars, captureVars,
                   pc, drive, workerVars, update_id, section_input, rating_log, feedback_log, calls>>

\* CallExtract with a result list that outlives the call
CallExtractKeepsResults ==
    /\ handler = "thread"
    /\ drive # <<>>
    /\ docs' = drive
    /\ section_code' = section_input
    /\ doc_index' = 0
    /\ pc' = "glob"
    /\ handler' = "extract"
    /\ UNCHANGED <<results, page_index, metaVars, captureVars, drive, workerVars, update_id, section_input,
                   replies, rating_log, feedback_log, calls>>

\* lines 104-164, 424 and 296-297: the local folder mirrors the Drive folder
\* and extract_all_section_infos is entered
CallExtract ==
    /\ handler = "thread"
    /\ drive # <<>>
    /\ docs' = drive
    /\ section_code' = section_input
    /\ results' = <<>>
    /\ doc_index' = 0
    /\ pc' = "glob"
    /\ handler' = "extract"
    /\ UNCHANGED <<page_index, metaVars, captureVars, drive, workerVars, update_id, section_input,
                   replies, rating_log, feedback_log, calls>>

\* lines 424-464 and 566-585: the walker has returned; the result is sent,
\* then the thank-you text
SendResult ==
    /\ handler = "extract"
    /\ pc = "done"
    /\ calls' = Append(calls, [section_code |-> section_code, docs |-> docs, infos |-> results])
    /\ replies' = replies \o <<IF results = <<>> THEN "not_found" ELSE "blocks", "thank_you">>
    /\ handler' = "idle"
    /\ UNCHANGED <<section_code, docs, results, doc_index, page_index, metaVars, captureVars,
                   pc, drive, workerVars, update_id, section_input, rating_log, feedback_log>>

\* line 564: the walker has raised; the exception leaves handle_section and
\* nothing more is sent
HandlerRaises ==
    /\ handler = "extract"
    /\ pc = "raised"
    /\ handler' = "idle"
    /\ UNCHANGED <<section_code, docs, results, doc_index, page_index, metaVars, captureVars,
                   pc, drive, workerVars, update_id, section_input, replies, rating_log, feedback_log,
                   calls>>

NextBot ==
    \/ HandleSection \/ SyncRaises \/ SyncEmpty \/ CallExtract \/ SendResult \/ HandlerRaises
    \/ OpenPdf \/ Return \/ PageStep \/ PagesDone \/ ScanLine \/ ScanDone \/ AcceptStep

\* extract_all_section_infos has not been entered
NoCall ==
    /\ section_code = ""
    /\ docs = <<>>
    /\ results = <<>>
    /\ doc_index = 0
    /\ page_index = 0
    /\ time_str = ""
    /\ date_str = ""
    /\ course_name = ""
    /\ course_id = ""
    /\ exam_type = ""
    /\ page_time_str = ""
    /\ lines = <<>>
    /\ line_index = 1
    /\ capturing = FALSE
    /\ teacher = ""
    /\ total_seats = ""
    /\ rooms = <<>>
    /\ pc = "none"

\* the bot is started: no update yet, the walker not entered
InitBot ==
    /\ drive \in Drives
    /\ update_id = 0
    /\ section_input = ""
    /\ handler = "idle"
    /\ replies = <<>>
    /\ rating_log = <<>>
    /\ feedback_log = <<>>
    /\ calls = <<>>
    /\ folder = {}
    /\ threads = <<>>
    /\ NoCall

SpecBot == InitBot /\ [][NextBot]_vars

(***************************************************************************)
(* Properties                                                              *)
(***************************************************************************)

\* the PDFs whose with-block has been left
ProcessedDocs == IF pc \in {"glob", "done"} THEN doc_index ELSE doc_index - 1

\* the part of a record that the capture of a page fills in
CaptureFields(r) == [teacher |-> r.teacher, rooms |-> r.rooms, total |-> r.total]

FieldsOfCapture(c) == [teacher |-> c.teacher, rooms |-> c.rooms, total |-> c.total_seats]

MapSeq(f(_), sq) == [i \in 1..Len(sq) |-> f(sq[i])]

\* the PDFs of Init, and for each the lowest-indexed page with a valid capture
MainDocs == DocsOver(Pages, MaxPages) \cup {RaisingPdf}

MainFirstValid == Table([doc \in MainDocs |-> [code \in Codes |-> FirstValidPage(doc, code)]])

MainCapture ==
    Table([doc \in MainDocs |-> [code \in Codes |->
        IF FirstValidPage(doc, code) = -1 THEN <<>>
        ELSE <<FieldsOfCapture(CaptureOf(doc, FirstValidPage(doc, code), code))>>]])

\* one capture per PDF that has a valid page, in the order of the PDFs
RECURSIVE ExpectedCaptures(_)
ExpectedCaptures(k) ==
    IF k = 0 THEN <<>> ELSE ExpectedCaptures(k - 1) \o MainCapture[docs[k]][section_code]

\* C1: every PDF adds at most one record, whatever the number of pages and
\* lines that hold the code: the result list is, PDF by PDF, the capture of
\* the lowest-indexed page whose capture has a teacher and rooms, and the
\* page loop never goes past that page.
C1_OneRecordPerDocument ==
    /\ MapSeq(CaptureFields, results) = ExpectedCaptures(ProcessedDocs)
    /\ doc_index >= 1 /\ MainFirstValid[pdf][section_code] # -1
          => page_index <= MainFirstValid[pdf][section_code]

\* a PDF with two pages whose captures are valid has been walked and has
\* given a single record
C1_Witness ==
    /\ pc = "done"
    /\ Len(docs) = 1
    /\ Len(results) = 1
    /\ \E i \in 0..(num_pages - 1) :
          i > MainFirstValid[pdf][section_code] /\ ValidPage(pdf, i, section_code)

\* the slot of the latest page among pages 0..index whose text gives one
RECURSIVE SlotAsOf(_, _)
SlotAsOf(doc, index) ==
    IF index < 0 THEN ""
    ELSE IF PageScan[doc[index + 1]].time # "" THEN PageScan[doc[index + 1]].time
    ELSE SlotAsOf(doc, index - 1)

Last(sq) == sq[Len(sq)]

\* C2: the time of a record captured on page p is the slot value as of page
\* p: the latest successful slot match among pages 0..p, empty if none; no
\* page after p, the lookahead page included, has a say.
C2_TimeIsPageSnapshot ==
    [][results' # results => Last(results').time = SlotAsOf(pdf, page_index)]_vars

\* a record has been captured on a page whose lookahead page names another slot
C2_Witness ==
    /\ pc = "done"
    /\ results # <<>>
    /\ results[1].time # ""
    /\ page_index + 1 < num_pages
    /\ PageScan[pdf[page_index + 2]].time \notin {"", results[1].time}

\* a token of the shape two digits, underscore, upper-case letter
IsSectionToken(tok) ==
    /\ Len(tok) = 4
    /\ Ch(tok, 1) \in Digits
    /\ Ch(tok, 2) \in Digits
    /\ Ch(tok, 3) = "_"
    /\ Ch(tok, 4) \in UpperSet

\* the line holds a section-code token other than the target code
HasOtherSectionToken(line, code) ==
    \E i \in 1..Len(LineScan[line].parts) :
        IsSectionToken(LineScan[line].parts[i]) /\ LineScan[line].parts[i] # code

\* the capture loop is about to read a line
AtLine == pc = "scan" /\ line_index <= Len(lines)

\* C3: while capturing, a line with a section-code token other than the
\* target code ends the capture at once, and the room list stays as it was
\* before that line.
C3_OtherSectionStops ==
    [][AtLine /\ capturing /\ HasOtherSectionToken(lines[line_index], section_code)
          => pc' = "accept" /\ rooms' = rooms]_vars

\* C4: a PDF with the target code somewhere in the text of a page is walked
\* to its end without an error being raised.
C4_NeverRaises ==
    doc_index >= 1 /\ (\E i \in 1..num_pages : PageHasSection(pdf[i], section_code))
        => pc # "raised"

\* the token before position k (1-based) of parts, none before the first
PrecedingToken(parts, k) == IF k > 1 THEN parts[k - 1] ELSE ""

\* C5: on the line that starts a capture the teacher is the token right
\* before the section-code token, wherever that token stands in the line,
\* and the total is the last token of the line.
C5_TeacherPrecedesSection ==
    [][AtLine /\ ~capturing /\ capturing' /\ pc' # "raised"
          => LET parts == LineScan[lines[line_index]].parts
                 k == CHOOSE i \in 1..Len(parts) :
                          parts[i] = section_code /\ \A j \in 1..(i - 1) : parts[j] # section_code
             IN  teacher' = PrecedingToken(parts, k) /\ total_seats' = parts[Len(parts)]]_vars

\* C6: every record of the result has a teacher, at least one room and the
\* target code as its section; a capture that ends without a teacher or
\* without a room adds nothing.
C6_RecordsAreValid ==
    [][/\ \A i \in 1..Len(results') :
             /\ results'[i].teacher # ""
             /\ results'[i].rooms # <<>>
             /\ results'[i].section = section_code
       /\ pc = "accept" /\ (teacher = "" \/ rooms = <<>>) => results' = results]_vars

\* the capture of a page that holds the code has ended without a room and
\* the walker has gone on without a record
C6_Witness ==
    /\ pc = "page"
    /\ page_index >= 1
    /\ PageHasSection(pdf[page_index], section_code)
    /\ capturing
    /\ teacher # ""
    /\ rooms = <<>>
    /\ results = <<>>

\* the line is the token Total, in any letter case, and an integer
IsTotalFooter(line) ==
    LET parts == LineScan[line].parts
    IN  /\ Len(parts) = 2
        /\ WordAt(parts[1], 1, "total")
        /\ Len(parts[1]) = 5
        /\ AllChars(parts[2], Digits)

\* C7: while a capture is active, a footer line "Total <integer>" is never
\* appended to the room list.
C7_TotalFooterSkipped ==
    [][AtLine /\ capturing /\ IsTotalFooter(lines[line_index]) => rooms' = rooms]_vars

\* a footer line has been read by an active capture that holds rooms
C7_Witness ==
    /\ pc = "scan"
    /\ capturing
    /\ line_index > 1
    /\ IsTotalFooter(lines[line_index - 1])
    /\ rooms # <<>>

\* the lines of pages index and index + 1 (0-based) of doc, as they follow
PageAndNext(doc, index) ==
    [i \in 1..(Len(doc[index + 1]) + (IF index + 2 <= Len(doc) THEN Len(doc[index + 2]) ELSE 0)) |->
        IF i <= Len(doc[index + 1]) THEN doc[index + 1][i] ELSE doc[index + 2][i - Len(doc[index + 1])]]

\* the (room, seats) pairs a line can give: a room row, or two tokens that
\* follow each other on a section row
PairsOfLine(line) ==
    {<<LineScan[line].parts[i], LineScan[line].parts[i + 1]>> : i \in 1..(Len(LineScan[line].parts) - 1)}

\* C8: the capture of page p reads the lines of page p followed by those of
\* page p + 1 when there is one, and no other page: every room of the
\* capture comes from a line read so far, rooms of page p + 1 come after
\* those of page p, and a room row of page p + 2 or later is never taken.
C8_OnePageLookahead ==
    pc \in {"scan", "accept"} =>
        /\ lines = PageAndNext(pdf, page_index)
        /\ \A i \in 1..Len(rooms) :
              \E j \in 1..(IF pc = "scan" THEN line_index - 1 ELSE Len(lines)) :
                  rooms[i] \in PairsOfLine(lines[j])

\* a record of page p holds a room of page p + 1 and not the room row that
\* page p + 2 holds
C8_Witness ==
    /\ pc = "done"
    /\ results # <<>>
    /\ page_index + 3 <= num_pages
    /\ \E i \in 1..Len(results[1].rooms) :
          /\ results[1].rooms[i] \in UNION {PairsOfLine(pdf[page_index + 2][j]) : j \in 1..Len(pdf[page_index + 2])}
          /\ results[1].rooms[i] \notin UNION {PairsOfLine(pdf[page_index + 1][j]) : j \in 1..Len(pdf[page_index + 1])}
    /\ \E j \in 1..Len(pdf[page_index + 3]) :
          /\ LineScan[pdf[page_index + 3][j]].row # <<>>
          /\ \A i \in 1..Len(results[1].rooms) : results[1].rooms[i] # LineScan[pdf[page_index + 3][j]].row

\* the number of pages of the open PDF whose header has been read
PagesRead ==
    IF doc_index = 0 THEN 0
    ELSE IF pc \in {"scan", "accept", "glob", "done"} /\ page_index < num_pages THEN page_index + 1
    ELSE page_index

\* the date of the lowest-indexed page among the first k pages that has one
FirstDate(doc, k) ==
    LET D == {i \in 1..k : PageScan[doc[i]].date # ""}
    IN  IF D = {} THEN "" ELSE PageScan[doc[MinOf(D)]].date

\* C9: within a PDF the running date is set at most once, to the date of
\* the lowest-indexed page read so far that has one; later pages never
\* change it, and it is the date of the record.
C9_DateSetOnce ==
    [][/\ pc' # "raised" /\ doc_index' >= 1 => date_str' = FirstDate(pdf', PagesRead')
       /\ doc_index' = doc_index /\ date_str # "" => date_str' = date_str
       /\ results' # results => Last(results').date = date_str]_vars

\* a record carries the date of page 0 although its own page has another
C9_Witness ==
    /\ pc = "done"
    /\ results # <<>>
    /\ page_index >= 1
    /\ results[1].date = PageScan[pdf[1]].date
    /\ PageScan[pdf[page_index + 1]].date \notin {"", results[1].date}

\* C10: the exam type is the classifier's result on page 0, computed once
\* per PDF; pages 1..n never change it, also when page 0 gives none, and it
\* is the exam type of the record.
C10_ExamTypeFromFirstPage ==
    [][/\ doc_index' >= 1 =>
             exam_type' = IF Len(pdf') = 0 THEN "" ELSE PageScan[pdf'[1]].exam_type
       /\ results' # results => Last(results').exam_type = exam_type]_vars

\* a record has no exam type although a later page of its PDF names one
C10_Witness ==
    /\ pc = "done"
    /\ results # <<>>
    /\ results[1].exam_type = ""
    /\ \E i \in 2..num_pages : PageScan[pdf[i]].exam_type # ""

\* the course info of the lowest-indexed page among the first k pages of doc
\* on which the extractor finds a course
FirstCourse(doc, k, code) ==
    LET F == {i \in 1..k : PageScan[doc[i]].course[code].id # ""}
    IN  IF F = {} THEN <<"", "">>
        ELSE <<PageScan[doc[MinOf(F)]].course[code].name, PageScan[doc[MinOf(F)]].course[code].id>>

\* C11: within a PDF the course name and id are those of the first page, up
\* to the capture page, on which the course extractor finds a course; once
\* set they never change, and the record carries them, so a course line on
\* a page after the capture page leaves the record without a course.
C11_CourseLockedByFirstPage ==
    [][/\ pc' # "raised" /\ doc_index' >= 1
             => <<course_name', course_id'>> = FirstCourse(pdf', PagesRead', section_code')
       /\ doc_index' = doc_index /\ course_id # ""
             => course_id' = course_id /\ course_name' = course_name
       /\ results' # results
             => /\ Last(results').course_id = course_id
                /\ Last(results').course_name = course_name
                /\ <<course_name, course_id>> = FirstCourse(pdf, page_index + 1, section_code)]_vars

\* a record carries the course of page 0 although its own page names another
C11_Witness ==
    /\ pc = "done"
    /\ results # <<>>
    /\ page_index >= 1
    /\ results[1].course_id = PageScan[pdf[1]].course[section_code].id
    /\ PageScan[pdf[page_index + 1]].course[section_code].id \notin {"", results[1].course_id}

\* the record that a PDF of Init gives when it is the only PDF of the folder:
\* the capture of its first valid page with the date, slot and course as of
\* that page and the exam type of page 0
MainRecord ==
    Table([doc \in MainDocs |-> [code \in Codes |->
        LET k == MainFirstValid[doc][code]
        IN  IF k = -1 THEN <<>>
            ELSE <<[date |-> FirstDate(doc, k + 1),
                    time |-> SlotAsOf(doc, k),
                    section |-> code,
                    teacher |-> MainCapture[doc][code][1].teacher,
                    rooms |-> MainCapture[doc][code][1].rooms,
                    total |-> MainCapture[doc][code][1].total,
                    course_name |-> FirstCourse(doc, k + 1, code)[1],
                    course_id |-> FirstCourse(doc, k + 1, code)[2],
                    exam_type |-> PageScan[doc[1]].exam_type]>>]])

\* the records of the first k PDFs of the folder, PDF after PDF
RECURSIVE ExpectedRecords(_)
ExpectedRecords(k) ==
    IF k = 0 THEN <<>> ELSE ExpectedRecords(k - 1) \o MainRecord[docs[k]][section_code]

\* C12: the result list holds the records in the order of the PDFs: it is
\* the per-PDF records put one after the other, so it is never longer than
\* the number of PDFs and the record of an earlier PDF comes first.
C12_RecordsInDocumentOrder ==
    /\ Len(results) <= doc_index
    /\ pc # "accept" => results = ExpectedRecords(ProcessedDocs)

\* two PDFs have given two different records
C12_Witness ==
    /\ pc = "done"
    /\ Len(docs) = 2
    /\ Len(results) = 2
    /\ results[1] # results[2]
    /\ results[1] = MainRecord[docs[1]][section_code][1]

\* C13: nothing of a PDF is left when the next one is opened: date, slot and
\* course start empty and the exam type is that of the new PDF's page 0, so
\* a record is the one its PDF gives alone, whatever came before it.
C13_NoStateAcrossDocuments ==
    [][/\ doc_index' # doc_index
             => /\ date_str' = "" /\ time_str' = "" /\ course_name' = "" /\ course_id' = ""
                /\ exam_type' = (IF Len(pdf') = 0 THEN "" ELSE PageScan[pdf'[1]].exam_type)
       /\ results' # results => <<Last(results')>> = MainRecord[pdf][section_code]]_vars

\* a PDF without date and slot has given its record after a PDF with both
C13_Witness ==
    /\ pc = "done"
    /\ Len(results) = 2
    /\ results[1].date # "" /\ results[1].time # "" /\ results[1].exam_type # ""
    /\ results[2].date = "" /\ results[2].time = "" /\ results[2].exam_type = ""

\* C14: the extractors are total: reading the header of a page (date, slot,
\* course info) and classifying page 0 always give a value and never raise,
\* also when the course code that the pattern finds is not a whole token.
C14_ExtractorsAreTotal ==
    [][(pc = "glob" \/ pc = "page") => pc' # "raised"]_vars

\* the records of the PDFs ds for the target code, PDF after PDF, as a
\* function of the two alone
RECURSIVE SoloRecords(_, _)
SoloRecords(ds, code) ==
    IF ds = <<>> THEN <<>>
    ELSE SoloRecords(SubSeq(ds, 1, Len(ds) - 1), code) \o MainRecord[ds[Len(ds)]][code]

\* C15: extraction is deterministic: two calls on the same ordered PDFs and
\* the same target code return identical lists, and what a call returns is
\* a function of its PDFs and its code alone, whatever calls, ratings or
\* feedback (logged with the time of day) came before it.
C15_ExtractionIsDeterministic ==
    /\ \A i, j \in 1..Len(calls) :
          (calls[i].section_code = calls[j].section_code /\ calls[i].docs = calls[j].docs)
              => calls[i].infos = calls[j].infos
    /\ \A i \in 1..Len(calls) :
          calls[i].infos = SoloRecords(calls[i].docs, calls[i].section_code)

\* the same section has been asked for twice and both calls found a record
C15_Witness ==
    /\ Len(calls) = 2
    /\ calls[1].section_code = calls[2].section_code
    /\ calls[1].docs = calls[2].docs
    /\ calls[1].infos # <<>>
    /\ calls[2].infos # <<>>

\* the texts made of two digits, an underscore and one upper-case letter
SectionCodeTexts == {d1 \o d2 \o "_" \o u : d1 \in Digits, d2 \in Digits, u \in UpperSet}

\* two digits, an underscore and one upper-case letter, and nothing else
TwoDigitsUnderscoreLetter(s) == s \in SectionCodeTexts

\* the text is a button label, a rating or a feedback message
ButtonRatingOrFeedback(s) ==
    \/ s \in {MenuLabel, InfoLabel}
    \/ s \in {"1*", "2*", "3*", "4*", "5*"}
    \/ StartsWith(s, FEEDBACK_PREFIX)

\* C20: the sync and the extraction run only for a text that, trimmed and
\* upper-cased, is exactly two digits, underscore, one upper-case letter: no
\* step starts the worker thread, changes the local folder, moves the walker
\* or records a call for another text, and an update with a malformed code
\* ends with the validation reply as its only reply.
C20_OnlySectionCodesReachExtraction ==
    [][/\ (handler' # "idle" \/ docs' # docs \/ pc' # pc \/ calls' # calls)
            => TwoDigitsUnderscoreLetter(section_input')
       /\ (update_id' # update_id /\ ~TwoDigitsUnderscoreLetter(section_input'))
            => /\ handler' = "idle"
               /\ Len(replies') = Len(replies) + 1
               /\ replies'[Len(replies')] # "searching"
               /\ ~ButtonRatingOrFeedback(section_input')
                    => replies'[Len(replies')] = "validation"]_vars

\* a malformed code got the validation reply, and a code typed in lower case
\* with blanks around it was searched for and found
C20_Witness ==
    /\ Len(replies) = 4
    /\ replies[1] = "validation"
    /\ replies[2] = "searching"
    /\ replies[3] = "blocks"
    /\ Len(calls) = 1
    /\ calls[1].section_code = "66_A"

(***************************************************************************)
(* Two section requests whose worker threads overlap: format_section_infos *)
(* (src/bot.py 406-424) run by asyncio.to_thread (line 565), step by step  *)
(* on the one PDF_FOLDER (line 26)                                         *)
(***************************************************************************)

Workers == {1, 2}

\* the names of the PDFs of the Drive folder, in the order of file_list
DriveNames == 1..Len(drive)

\* the members of the set S of numbers, in increasing order
RECURSIVE Sorted(_)
Sorted(S) == IF S = {} THEN <<>> ELSE <<MinOf(S)>> \o Sorted(S \ {MinOf(S)})

\* PDF_FOLDER.glob("*.pdf"): the directory is listed when the loop starts
Glob == Sorted(folder)

\* thread w goes to position at with loop state todo
Goto(w, at, todo) == [threads EXCEPT ![w].at = at, ![w].todo = todo]

\* lines 142-144: the Drive folder is listed, then the local folder
ListFiles(w) ==
    /\ threads[w].at = "list"
    /\ threads' = Goto(w, "unlink", Glob)
    /\ UNCHANGED folder

\* lines 144-148: one local PDF is removed; a PDF already gone gives an
\* exception that is caught
Unlink(w) ==
    /\ threads[w].at = "unlink"
    /\ threads[w].todo # <<>>
    /\ folder' = folder \ {Head(threads[w].todo)}
    /\ threads' = Goto(w, "unlink", Tail(threads[w].todo))

\* lines 151-156 and 418-422: the local folder is cleared; without PDFs in
\* the Drive folder the maintenance text is returned
Cleared(w) ==
    /\ threads[w].at = "unlink"
    /\ threads[w].todo = <<>>
    /\ threads' = IF drive = <<>> THEN Goto(w, "returned", <<>>)
                  ELSE Goto(w, "download", Sorted(DriveNames))
    /\ UNCHANGED folder

\* lines 157-161: one PDF is downloaded
Download(w) ==
    /\ threads[w].at = "download"
    /\ threads[w].todo # <<>>
    /\ folder' = folder \cup {Head(threads[w].todo)}
    /\ threads' = Goto(w, "download", Tail(threads[w].todo))

\* lines 163-164, 424 and 296-299: the sync is finished, the extraction is
\* entered and lists the local folder
EnterExtract(w) ==
    /\ threads[w].at = "download"
    /\ threads[w].todo = <<>>
    /\ threads' = Goto(w, "read", Glob)
    /\ UNCHANGED folder

\* lines 299-401: the next PDF of the listing is opened and walked, which
\* adds its records to the result list; a PDF that is gone makes
\* pdfplumber.open raise
ReadPdf(w) ==
    /\ threads[w].at = "read"
    /\ threads[w].todo # <<>>
    /\ LET f == Head(threads[w].todo)
       IN  threads' =
             IF f \in folder
             THEN [threads EXCEPT ![w].todo = Tail(threads[w].todo),
                                  ![w].opened = Append(threads[w].opened, f)]
             ELSE Goto(w, "raised", threads[w].todo)
    /\ UNCHANGED folder

\* line 403: the result list is returned
ReturnInfos(w) ==
    /\ threads[w].at = "read"
    /\ threads[w].todo = <<>>
    /\ threads' = Goto(w, "returned", <<>>)
    /\ UNCHANGED folder

WorkerStep(w) ==
    /\ \/ ListFiles(w) \/ Unlink(w) \/ Cleared(w) \/ Download(w)
       \/ EnterExtract(w) \/ ReadPdf(w) \/ ReturnInfos(w)
    /\ UNCHANGED <<section_code, docs, results, doc_index, page_index, metaVars, captureVars,
                   pc, drive, update_id, section_input, handler, replies, rating_log,
                   feedback_log, calls>>

NextWorkers == \E w \in Workers : WorkerStep(w)

\* two requests have passed the validation of handle_section; the local
\* folder is empty or holds what an earlier sync left
InitWorkers ==
    /\ NoCall
    /\ drive \in SeqsOf(DocsOver(Pages, 1), 0, MaxDocs)
    /\ update_id = 2
    /\ section_input = ""
    /\ handler = "thread"
    /\ replies = <<"searching", "searching">>
    /\ rating_log = <<>>
    /\ feedback_log = <<>>
    /\ calls = <<>>
    /\ folder \in {{}, DriveNames}
    /\ threads \in [Workers -> {[at |-> "list", section_code |-> c, todo |-> <<>>,
                                    opened |-> <<>>] : c \in Codes}]

SpecWorkers == InitWorkers /\ [][NextWorkers]_vars

\* the result list of thread w: the records of the PDFs it has opened
InfosOf(w) ==
    SoloRecords([i \in 1..Len(threads[w].opened) |-> drive[threads[w].opened[i]]],
                threads[w].section_code)

NormalizedText(page) == Join(Split(StrLower(PageText(page))), " ")

\* some word of W occurs in the text t
Occurs(t, W) == \E w \in W : StrContains(t, w)

\* "final" occurs together with an examination-indicating token
FinalRule(t) ==
    Occurs(t, {"final"}) /\ Occurs(t, {"exam", "examination", "term final", "final term"})

\* a midterm-indicating token occurs together with an examination-indicating one
MidtermRule(t) ==
    /\ Occurs(t, {"mid", "midterm", "mid-term", "mid term"})
    /\ Occurs(t, {"exam", "examination", "mid term", "term mid"})

\* an improvement, makeup or supplementary keyword occurs
ImprovementRule(t) ==
    Occurs(t, {"improvement", "improve", "makeup", "make-up", "supplementary"})

\* C17: the exam type of a PDF follows from the rules on the normalized text
\* of its first page in the order Final, Midterm, Improvement / Makeup: it is
\* Final exactly when the Final rule holds, Midterm exactly when the Midterm
\* rule holds and the Final rule does not, Improvement / Makeup exactly when
\* the Improvement rule holds and neither of the two others, and empty when
\* no rule holds.
C17_ExamRulesInPriorityOrder ==
    (doc_index >= 1 /\ Len(pdf) > 0) =>
        LET t == NormalizedText(pdf[1])
        IN  /\ exam_type = "Final Examination" <=> FinalRule(t)
            /\ exam_type = "Midterm Examination" <=> (MidtermRule(t) /\ ~FinalRule(t))
            /\ exam_type = "Improvement / Makeup Examination"
                  <=> (ImprovementRule(t) /\ ~MidtermRule(t) /\ ~FinalRule(t))
            /\ exam_type = "" <=> ~(FinalRule(t) \/ MidtermRule(t) \/ ImprovementRule(t))

\* a first page that meets the Final and the Midterm rule was classified Final
C17_Witness ==
    /\ doc_index = 1
    /\ Len(pdf) > 0
    /\ FinalRule(NormalizedText(pdf[1]))
    /\ MidtermRule(NormalizedText(pdf[1]))
    /\ exam_type = "Final Examination"

\* the token is a course code: three upper-case letters and 3 or 4 digits
IsCourseCodeToken(tok) ==
    /\ Len(tok) \in {6, 7}
    /\ AllChars(SubSeq(tok, 1, 3), UpperSet)
    /\ AllChars(SubSeq(tok, 4, Len(tok)), Digits)

\* the positions of the tokens of parts that satisfy the test
TokensWhere(parts, Test(_)) == {i \in 1..Len(parts) : Test(parts[i])}

\* the line holds a section token of the prefix and a course-code token
HoldsSectionAndCourse(line, section_prefix) ==
    LET IsSec(tok) == IsPrefixSection(tok, section_prefix)
    IN  /\ TokensWhere(Split(line), IsSec) # {}
        /\ TokensWhere(Split(line), IsCourseCodeToken) # {}

\* name and id as the claim gives them for a line that qualifies
ClaimedCourseOfLine(line, section_prefix) ==
    LET parts == Split(line)
        IsSec(tok) == IsPrefixSection(tok, section_prefix)
        c == MinOf(TokensWhere(parts, IsCourseCodeToken))
        S == {i \in TokensWhere(parts, IsSec) : i > c}
        between == SubSeq(parts, c + 1, IF S = {} THEN Len(parts) ELSE MinOf(S) - 1)
    IN  <<Join(DropInitials(between), " "), parts[c]>>

\* name and id as the claim gives them for a page
ClaimedCourse(page, section_prefix) ==
    LET Q == {i \in 1..Len(page) : HoldsSectionAndCourse(page[i], section_prefix)}
    IN  IF Q = {} THEN <<"", "">> ELSE ClaimedCourseOfLine(page[MinOf(Q)], section_prefix)

\* C18: on a page read while no course is set, the course info is that of
\* the first line holding a section token of the prefix and a course-code
\* token: the id is the course code, the name the tokens between it and the
\* first section token, without the trailing initials; it is empty when no
\* line qualifies; the docstring line gives Systems Analysis and Design,
\* CSE227.
C18_CourseInfoOfFirstQualifyingLine ==
    [][(pc = "page" /\ page_index < num_pages /\ course_id = "")
          => /\ pc' # "raised"
             /\ <<course_name', course_id'>>
                    = ClaimedCourse(pdf[page_index + 1], SectionPrefix(section_code))]_vars

\* the days of the months of a year that is not a leap year
MonthDays == <<31, 28, 31, 30, 31, 30, 31, 31, 30, 31, 30, 31>>

\* day d of month m of year y is a date of the calendar
RealCalendarDate(d, m, y) ==
    /\ y >= 1
    /\ m \in 1..12
    /\ d >= 1
    /\ d <= MonthDays[m] + (IF m = 2 /\ (y % 400 = 0 \/ (y % 4 = 0 /\ y % 100 # 0)) THEN 1 ELSE 0)

\* the labeled date token of a page, "" when the page has none
LabeledDate(page) ==
    LET text == PageText(page)
        P == {i \in 1..Len(text) : DateTokenPos(text, i) # 0}
    IN  IF P = {} THEN ""
        ELSE SubSeq(text, DateTokenPos(text, MinOf(P)), DateTokenPos(text, MinOf(P)) + 9)

\* the digits of a date token with "-" between them
DashedDigits(tok) == SubSeq(tok, 1, 2) \o "-" \o SubSeq(tok, 4, 5) \o "-" \o SubSeq(tok, 7, 10)

\* C19: reading a page with a labeled date token while no date is set never
\* raises; when the token is no date of the calendar the date is its digits
\* with "-" between them and nothing more, and when it is one the date is
\* those digits followed by a weekday in brackets.
C19_InvalidDateKeepsDigits ==
    [][(pc = "page" /\ page_index < num_pages /\ date_str = ""
            /\ LabeledDate(pdf[page_index + 1]) # "")
          => LET tok == LabeledDate(pdf[page_index + 1])
                 real == RealCalendarDate(StrToInt(SubSeq(tok, 1, 2)), StrToInt(SubSeq(tok, 4, 5)),
                                          StrToInt(SubSeq(tok, 7, 10)))
             IN  /\ pc' # "raised"
                 /\ ~real => date_str' = DashedDigits(tok)
                 /\ real => \E i \in 1..7 :
                               date_str' = DashedDigits(tok) \o " (" \o WeekdayNames[i] \o ")"]_vars

\* a record carries day 31 of April as digits alone
C19_Witness ==
    /\ pc = "done"
    /\ results # <<>>
    /\ results[1].date = "31-04-2025"

(***************************************************************************)
(* The first room of the section row                                       *)
(***************************************************************************)

\* the tokens of the line after the first token that is the section code
TokensAfter(line, code) ==
    LET toks == Split(line)
        k == CHOOSE i \in 1..Len(toks) : toks[i] = code /\ \A j \in 1..(i - 1) : toks[j] # code
    IN  SubSeq(toks, k + 1, Len(toks))

HasToken(line, code) == \E i \in 1..Len(Split(line)) : Split(line)[i] = code

\* the line the scan is at starts a capture
StartsCapture ==
    /\ pc = "scan"
    /\ line_index <= Len(lines)
    /\ ~capturing
    /\ HasToken(lines[line_index], section_code)

\* C21: on the line that starts a capture the room list becomes the pair of
\* the first two tokens after the section-code token when at least three
\* tokens follow that token, and stays empty when zero, one or two follow
C21_FirstRoomNeedsThreeTokens ==
    [][StartsCapture =>
         LET after == TokensAfter(lines[line_index], section_code)
         IN  /\ capturing'
             /\ rooms' = IF Len(after) >= 3 THEN <<<<after[1], after[2]>>>> ELSE <<>>]_vars

\* a capture started on a row with exactly three tokens after the section
\* code holds the pair of the first two of them
C21_Witness ==
    /\ pc = "scan"
    /\ line_index = 2
    /\ lines[1] = "NS 66_A 208 27 50"
    /\ capturing
    /\ rooms = <<<<"208", "27">>>>

(***************************************************************************)
(* The running slot                                                        *)
(***************************************************************************)

\* the walker is about to go through page page_index of the open PDF
AtPage == pc = "page" /\ page_index < num_pages

\* C22: after each page the running slot is the result of parse_time on the
\* latest page so far whose result was non-empty: a match on the page
\* replaces the value, a page without the keyword or with the keyword and no
\* slot pattern leaves it as it was
C22_RunningSlotIsLatestMatch ==
    [][AtPage =>
         LET slot == PageScan[pdf[page_index + 1]].time
         IN  /\ time_str' = SlotAsOf(pdf, page_index)
             /\ slot # "" => time_str' = slot
             /\ slot = "" => time_str' = time_str]_vars

\* three pages are behind: a slot, another slot that replaced it, and a page
\* with the keyword and no slot pattern that left the second slot in place
C22_Witness ==
    /\ pc = "page"
    /\ page_index = 3
    /\ PageScan[pdf[1]].time # ""
    /\ PageScan[pdf[2]].time \notin {"", PageScan[pdf[1]].time}
    /\ PageScan[pdf[3]].has_slot
    /\ PageScan[pdf[3]].time = ""
    /\ time_str = PageScan[pdf[2]].time

(***************************************************************************)
(* The section code as the first token of its row                          *)
(***************************************************************************)

\* the section code is the first token of the line
CodeIsFirstToken(line, code) == Len(Split(line)) >= 1 /\ Split(line)[1] = code

\* the line of the scanned lines on which the capture started: the first one
\* that contains the section code
StartLine ==
    lines[CHOOSE i \in 1..Len(lines) :
              /\ StrContains(lines[i], section_code)
              /\ \A j \in 1..(i - 1) : ~StrContains(lines[j], section_code)]

\* C23: when the section-code token is the first token of the line that
\* starts the capture the teacher stays empty, and the capture of that page
\* adds no record, whatever rooms the line and the rows after it give
C23_FirstTokenGivesNoRecord ==
    [][/\ StartsCapture /\ CodeIsFirstToken(lines[line_index], section_code) => teacher' = ""
       /\ pc = "accept" /\ capturing /\ CodeIsFirstToken(StartLine, section_code)
             => results' = results]_vars

(***************************************************************************)
(* After a rejected capture                                                *)
(***************************************************************************)

\* the capture of the page has ended and is not accepted
Rejected == pc = "accept" /\ (rooms = <<>> \/ teacher = "")

\* the capture of the lines from the state of lines 349-352
CaptureAfresh(lns, code) ==
    ScanFrom([capturing |-> FALSE, teacher |-> "", total_seats |-> "", rooms |-> <<>>,
              ctl |-> "next"], lns, 1, code)

\* C24: a capture that is not accepted adds no record and hands over to the
\* next page of the same PDF with the date, the running slot and the course
\* as they are; the capture of a page starts not capturing, with an empty
\* teacher, total and room list, a date and a course that are set stay, and
\* the slot changes only to the slot of the page; the record of a page holds
\* the teacher, the total and the rooms of the capture of that page alone
C24_RejectedPageLeavesNoTrace ==
    [][/\ Rejected =>
             /\ pc' = "page" /\ page_index' = page_index + 1 /\ doc_index' = doc_index
             /\ results' = results
             /\ <<date_str', time_str', course_name', course_id'>>
                    = <<date_str, time_str, course_name, course_id>>
       /\ AtPage /\ pc' = "scan" =>
             /\ ~capturing' /\ teacher' = "" /\ total_seats' = "" /\ rooms' = <<>>
             /\ date_str # "" => date_str' = date_str
             /\ course_id # "" => course_id' = course_id /\ course_name' = course_name
             /\ time_str' \in {time_str, PageScan[pdf[page_index + 1]].time}
       /\ results' # results =>
             LET c == CaptureAfresh(CombinedLines(pdf, page_index), section_code)
             IN  /\ Last(results').teacher = c.teacher
                 /\ Last(results').total = c.total_seats
                 /\ Last(results').rooms = c.rooms
                 /\ Last(results').date = date_str
                 /\ Last(results').time = time_str
                 /\ Last(results').course_id = course_id]_vars

\* page 0 held the section row of teacher NS without a room and was
\* rejected; page 1 gave the record, with its own teacher and total and with
\* the date, the slot and the course of page 0
C24_Witness ==
    /\ pc = "done"
    /\ num_pages = 2
    /\ page_index = 1
    /\ pdf[1] = <<"Date: 05-11-2025 Slot A (9 AM)", "CSE227 Web NS 66_A 50">>
    /\ Len(results) = 1
    /\ results[1].teacher = "MR"
    /\ results[1].total = "51"
    /\ results[1].rooms = <<<<"208", "27">>>>
    /\ results[1].date = PageScan[pdf[1]].date
    /\ results[1].time = PageScan[pdf[1]].time
    /\ results[1].course_id = "CSE227"

(***************************************************************************)
(* The target code on a later line                                         *)
(***************************************************************************)

\* the position in the scanned lines of the first line with the section code
FirstCodeIndex ==
    CHOOSE i \in 1..Len(lines) :
        /\ StrContains(lines[i], section_code)
        /\ \A j \in 1..(i - 1) : ~StrContains(lines[j], section_code)

\* sq is the beginning of tq
IsPrefixOf(sq, tq) == Len(sq) <= Len(tq) /\ SubSeq(tq, 1, Len(sq)) = sq

====
